---- MODULE Spec2Model ----
(***************************************************************************)
(* A model of jwtverifier.go: the JwtVerifier configuration, New(), and    *)
(* the two verification flows VerifyAccessToken and VerifyIdToken, taken   *)
(* one source statement group at a time (shape check, metadata fetch,      *)
(* decode, one step per claim check, return).                              *)
(*                                                                         *)
(* Times are unix seconds.  All times and leeways of the model are far     *)
(* inside the range in which the int64 subtraction of validateExp does not *)
(* wrap and the conversion to float64 is exact, so they are plain          *)
(* integers here.                                                          *)
(***************************************************************************)
EXTENDS Integers, Sequences, FiniteSets, TLC

VARIABLES verifier, now, process, callers, scenario, pc, flow, jwt, metaData,
          token, evaluated, log, ret

vars == <<verifier, now, process, callers, scenario, pc, flow, jwt, metaData,
          token, evaluated, log, ret>>

(***************************************************************************)
(* Bounds of the model.                                                    *)
(***************************************************************************)
\* the clock starts at Epoch and advances at most MaxTicks seconds
MaxTicks == 2
\* how far around each expiry boundary the timestamp claims are sampled
Spread == 1

\* the first clock value of a behaviour
Epoch == 1000

(***************************************************************************)
(* Values.                                                                 *)
(***************************************************************************)
\* a Go interface{} value as the verifier sees it: its dynamic type and value
Absent == [t |-> "nil", s |-> "", n |-> 0]
Str(s) == [t |-> "string", s |-> s, n |-> 0]
Num(n) == [t |-> "float64", s |-> "", n |-> n]
Other  == [t |-> "slice", s |-> "", n |-> 0]

\* a Go error value: NoErr is the nil error
NoErr == [kind |-> "nil", about |-> "nil"]
Errorf(kind, about) == [kind |-> kind, about |-> about]

\* m[k] of a Go map[string]interface{}: nil for a key that is not there
Lookup(m, k) == IF k \in DOMAIN m THEN m[k] ELSE Absent

EmptyMap == [k \in {} |-> Absent]

\* j.ClaimsToValidate[k]: the zero string for a missing key and for a nil map
Expected(j, k) ==
    IF j.ClaimsToValidate.isNil THEN ""
    ELSE IF k \in DOMAIN j.ClaimsToValidate.m THEN j.ClaimsToValidate.m[k]
    ELSE ""

(***************************************************************************)
(* Token shape validation: isValidJwt and padHeader.                       *)
(*                                                                         *)
(* A token is its text, a sequence of characters, together with the bytes  *)
(* its first segment stands for once base64-decoded, as json.Unmarshal     *)
(* sees them.  A character is one of the classes the code tells apart:     *)
(*   "w"  a letter or digit (in the pattern's classes and in base64)       *)
(*   "-"  '-' or '_'        (in the pattern's classes, not in StdEncoding) *)
(*   "/"  '/'               (in the pattern's last class and StdEncoding)  *)
(*   "."  the period                                                       *)
(*   "!"  any other character ('+' and line breaks, which StdEncoding     *)
(*        takes, are not among the characters of the model)                *)
(***************************************************************************)
Rep(ch, n) == [i \in 1..n |-> ch]

InSegmentClass(ch) == ch \in {"w", "-"}
InTailClass(ch)    == ch \in {"w", "-", "/"}

\* the positions of the periods of a text
Periods(text) == {i \in 1..Len(text) : text[i] = "."}

\* text[from..] is in the language of  [a-zA-Z0-9-_]+\.?([a-zA-Z0-9-_]+)[/a-zA-Z0-9-_]+?$
\* Without the optional period that is two class characters and then one or
\* more characters of the last class, to the end of the text ($); with the
\* period at q, class characters up to q, one after it, and then one or more
\* characters of the last class.
TailMatches(text, from) ==
    \/ /\ from + 2 <= Len(text)
       /\ InSegmentClass(text[from])
       /\ InSegmentClass(text[from + 1])
       /\ \A i \in (from + 2)..Len(text) : InTailClass(text[i])
    \/ \E q \in Periods(text) :
          /\ q > from
          /\ \A i \in from..(q - 1) : InSegmentClass(text[i])
          /\ q + 2 <= Len(text)
          /\ InSegmentClass(text[q + 1])
          /\ \A i \in (q + 2)..Len(text) : InTailClass(text[i])

\* jwtRegex(jwt): MatchString of
\*   [a-zA-Z0-9-_]+\.[a-zA-Z0-9-_]+\.?([a-zA-Z0-9-_]+)[/a-zA-Z0-9-_]+?$
\* The pattern is not anchored at its start, so a match may begin anywhere:
\* some period p has a class character before it and a matching tail after it.
jwtRegex(text) ==
    \E p \in Periods(text) :
       /\ p > 1
       /\ InSegmentClass(text[p - 1])
       /\ TailMatches(text, p + 1)

\* strings.Split(jwt, "."): the segments between the periods
Split(text) ==
    LET P == Periods(text)
        \* the k-th period, with position 0 before the text and Len + 1 after it
        at(k) == IF k = 0 THEN 0
                 ELSE IF k > Cardinality(P) THEN Len(text) + 1
                 ELSE CHOOSE i \in P : Cardinality({j \in P : j < i}) = k - 1
    IN [k \in 1..(Cardinality(P) + 1) |-> SubSeq(text, at(k - 1) + 1, at(k) - 1)]

padHeader(header) ==
    IF Len(header) % 4 # 0
    THEN header \o Rep("=", 4 - (Len(header) % 4))
    ELSE header

\* base64.StdEncoding.DecodeString succeeds: every data character is in the
\* standard alphabet and the text ends with at most two '='
StdDecodable(padded) ==
    /\ Len(padded) % 4 = 0
    /\ \A i \in 1..Len(padded) : padded[i] \in {"w", "/", "="}
    /\ \A i \in 1..Len(padded) : padded[i] = "=" => i > Len(padded) - 2

\* what json.Unmarshal makes of the decoded header bytes
NotJson == [isJson |-> FALSE, obj |-> EmptyMap]
JsonObject(obj) == [isJson |-> TRUE, obj |-> obj]

\* errors.JwtEmptyStringError()
JwtEmptyStringError == Errorf("JwtEmptyStringError", "nil")

\* a validator that reports a pattern mismatch as an error
isValidJwtPatternError(j) ==
    IF j.text = <<>> THEN [ok |-> FALSE, err |-> JwtEmptyStringError]
    ELSE IF ~jwtRegex(j.text) THEN [ok |-> FALSE, err |-> Errorf("not a JWT", "nil")]
    ELSE IF ~StdDecodable(padHeader(Split(j.text)[1])) THEN [ok |-> FALSE, err |-> NoErr]
    ELSE IF ~j.bytes.isJson THEN [ok |-> FALSE, err |-> NoErr]
    ELSE IF Cardinality(DOMAIN j.bytes.obj) # 2 THEN [ok |-> FALSE, err |-> NoErr]
    ELSE IF "alg" \notin DOMAIN j.bytes.obj \/ "kid" \notin DOMAIN j.bytes.obj
         THEN [ok |-> FALSE, err |-> NoErr]
    ELSE IF j.bytes.obj["alg"] # Str("RS256") THEN [ok |-> FALSE, err |-> NoErr]
    ELSE [ok |-> TRUE, err |-> NoErr]

\* a validator that does not count the header keys
isValidJwtAnyKeys(j) ==
    IF j.text = <<>> THEN [ok |-> FALSE, err |-> JwtEmptyStringError]
    ELSE IF ~jwtRegex(j.text) THEN [ok |-> FALSE, err |-> NoErr]
    ELSE IF ~StdDecodable(padHeader(Split(j.text)[1])) THEN [ok |-> FALSE, err |-> NoErr]
    ELSE IF ~j.bytes.isJson THEN [ok |-> FALSE, err |-> NoErr]
    ELSE IF "alg" \notin DOMAIN j.bytes.obj \/ "kid" \notin DOMAIN j.bytes.obj
         THEN [ok |-> FALSE, err |-> NoErr]
    ELSE IF j.bytes.obj["alg"] # Str("RS256") THEN [ok |-> FALSE, err |-> NoErr]
    ELSE [ok |-> TRUE, err |-> NoErr]

isValidJwt(j) ==
    IF j.text = <<>> THEN [ok |-> FALSE, err |-> JwtEmptyStringError]
    ELSE IF ~jwtRegex(j.text) THEN [ok |-> FALSE, err |-> NoErr]
    ELSE IF ~StdDecodable(padHeader(Split(j.text)[1])) THEN [ok |-> FALSE, err |-> NoErr]
    ELSE IF ~j.bytes.isJson THEN [ok |-> FALSE, err |-> NoErr]
    ELSE IF Cardinality(DOMAIN j.bytes.obj) # 2 THEN [ok |-> FALSE, err |-> NoErr]
    ELSE IF "alg" \notin DOMAIN j.bytes.obj \/ "kid" \notin DOMAIN j.bytes.obj
         THEN [ok |-> FALSE, err |-> NoErr]
    ELSE IF j.bytes.obj["alg"] # Str("RS256") THEN [ok |-> FALSE, err |-> NoErr]
    ELSE [ok |-> TRUE, err |-> NoErr]

(***************************************************************************)
(* The tokens the callers pass in.                                         *)
(***************************************************************************)
Join(a, b) == a \o <<".">> \o b

\* a header segment long enough for a two-key JSON object, no padding needed
HeaderSegment == Rep("w", 36)
Payload == Rep("w", 4)

Rs256Header == JsonObject([k \in {"alg", "kid"} |->
                              IF k = "alg" THEN Str("RS256") ELSE Str("abc")])
Hs256Header == JsonObject([k \in {"alg", "kid"} |->
                              IF k = "alg" THEN Str("HS256") ELSE Str("abc")])

EmptyToken == [text |-> <<>>, bytes |-> NotJson]
GoodToken == [text |-> Join(HeaderSegment, Join(Payload, Payload)),
              bytes |-> Rs256Header]

Tokens ==
    { EmptyToken,
      GoodToken,
      \* not a JWT at all
      [text |-> <<"!", "!">>, bytes |-> NotJson],
      \* three segments, header names another algorithm
      [text |-> Join(HeaderSegment, Join(Payload, Payload)), bytes |-> Hs256Header],
      \* three segments, first segment is not base64 of JSON
      [text |-> Join(Payload, Join(Payload, Payload)), bytes |-> NotJson] }

\* a header object with the given keys; alg as given, every other key a string
Header(keys, alg) == JsonObject([k \in keys |-> IF k = "alg" THEN alg ELSE Str("abc")])

\* the tokens of the shape scenario: every way isValidJwt tells tokens apart
ShapeTokens ==
    Tokens \cup
    { \* two segments, the header a valid one
      [text |-> Join(HeaderSegment, Payload), bytes |-> Rs256Header],
      \* four segments, the header a valid one
      [text |-> Join(HeaderSegment, Join(Payload, Join(Payload, Payload))),
       bytes |-> Rs256Header],
      \* three segments, a '/' in the last one
      [text |-> Join(HeaderSegment, Join(Payload, <<"w", "w", "/", "w">>)),
       bytes |-> Rs256Header],
      \* other text before the first segment
      [text |-> <<"!">> \o Join(HeaderSegment, Join(Payload, Payload)), bytes |-> NotJson],
      \* one segment
      [text |-> HeaderSegment, bytes |-> Rs256Header],
      \* three segments, '-' or '_' in the header segment
      [text |-> Join(Rep("w", 35) \o <<"-">>, Join(Payload, Payload)), bytes |-> NotJson],
      \* three segments, the header segment one character over a multiple of four
      [text |-> Join(Rep("w", 37), Join(Payload, Payload)), bytes |-> NotJson],
      \* three segments, the header the JSON null or {} (padded by padHeader)
      [text |-> Join(Rep("w", 6), Join(Payload, Payload)), bytes |-> JsonObject(EmptyMap)],
      \* three segments, a third header key
      [text |-> Join(Rep("w", 40), Join(Payload, Payload)),
       bytes |-> Header({"alg", "kid", "typ"}, Str("RS256"))],
      \* three segments, kid missing
      [text |-> Join(HeaderSegment, Join(Payload, Payload)),
       bytes |-> Header({"alg", "typ"}, Str("RS256"))],
      \* three segments, alg missing
      [text |-> Join(HeaderSegment, Join(Payload, Payload)),
       bytes |-> Header({"kid", "typ"}, Str("RS256"))],
      \* three segments, alg a number
      [text |-> Join(HeaderSegment, Join(Payload, Payload)),
       bytes |-> Header({"alg", "kid"}, Num(256))],
      \* three segments, alg alone
      [text |-> Join(Rep("w", 20), Join(Payload, Payload)),
       bytes |-> Header({"alg"}, Str("RS256"))] }

(***************************************************************************)
(* The claim checks.  Each returns the Go error it returns, or Panic where *)
(* the type assertion of the code panics.                                  *)
(***************************************************************************)
Panic == [kind |-> "panic", about |-> "interface conversion"]

\* interface{} != string: equal only when the dynamic type is string and the
\* strings are the same
DiffersFrom(v, expected) == ~(v.t = "string" /\ v.s = expected)

validateNonce(j, nonce) ==
    IF Expected(j, "nonce") = "" THEN NoErr
    ELSE IF DiffersFrom(nonce, Expected(j, "nonce"))
         THEN Errorf("nonce does not match", Expected(j, "nonce"))
    ELSE NoErr

validateAudience(j, audience) ==
    IF Expected(j, "aud") = "" THEN NoErr
    ELSE IF DiffersFrom(audience, Expected(j, "aud"))
         THEN Errorf("aud does not match", Expected(j, "aud"))
    ELSE NoErr

validateClientId(j, clientId) ==
    IF Expected(j, "cid") = "" THEN NoErr
    ELSE IF DiffersFrom(clientId, Expected(j, "cid"))
         THEN Errorf("clientId does not match", Expected(j, "cid"))
    ELSE NoErr

\* the issuer check with the Issuer field standing in for an unset expectation
validateIssTrusted(j, issuer) ==
    IF Expected(j, "iss") = ""
    THEN IF DiffersFrom(issuer, j.Issuer)
         THEN Errorf("iss does not match", j.Issuer) ELSE NoErr
    ELSE IF DiffersFrom(issuer, Expected(j, "iss"))
         THEN Errorf("iss does not match", Expected(j, "iss"))
    ELSE NoErr

validateIss(j, issuer) ==
    IF Expected(j, "iss") = "" THEN NoErr
    ELSE IF DiffersFrom(issuer, Expected(j, "iss"))
         THEN Errorf("iss does not match", Expected(j, "iss"))
    ELSE NoErr

\* the expiry comparison with the boundary second taken as expired
validateExpInclusive(j, exp, t) ==
    IF exp.t # "float64" THEN Panic
    ELSE IF t - j.Leeway >= exp.n THEN Errorf("the token is expired", "nil")
    ELSE NoErr

\* an expiry check that adds the leeway to the current time
validateExpLeewayAdded(j, exp, t) ==
    IF exp.t # "float64" THEN Panic
    ELSE IF t + j.Leeway > exp.n THEN Errorf("the token is expired", "nil")
    ELSE NoErr

\* t is time.Now().Unix() at the moment of the call
validateExp(j, exp, t) ==
    IF exp.t # "float64" THEN Panic
    ELSE IF t - j.Leeway > exp.n THEN Errorf("the token is expired", "nil")
    ELSE NoErr

\* defined by the source, called by neither flow
validateIat(j, iat, t) ==
    IF iat.t # "float64" THEN Panic
    ELSE IF t + j.Leeway < iat.n THEN Errorf("the token was issued in the future", "nil")
    ELSE NoErr

\* the check a flow runs at each of its steps, on the claim it passes to it
StepCheck(j, step, claims, t) ==
    CASE step = "iss"   -> validateIss(j, Lookup(claims, "iss"))
      [] step = "aud"   -> validateAudience(j, Lookup(claims, "aud"))
      [] step = "cid"   -> validateClientId(j, Lookup(claims, "cid"))
      [] step = "exp"   -> validateExp(j, Lookup(claims, "exp"), t)
      [] step = "iat"   -> validateExp(j, Lookup(claims, "iat"), t)
      [] step = "nonce" -> validateNonce(j, Lookup(claims, "nonce"))

\* the message a flow wraps a failing step error in (the backquotes left out)
StepMessage(step) ==
    CASE step = "iss"   -> "the Issuer was not able to be validated"
      [] step = "aud"   -> "the Audience was not able to be validated"
      [] step = "cid"   -> "the Client Id was not able to be validated"
      [] step = "exp"   -> "the Expiration was not able to be validated"
      [] step = "iat"   -> "the Issued At was not able to be validated"
      [] step = "nonce" -> "the Nonce was not able to be validated"

\* the checks with the audience taken before the issuer
AudienceFirstSteps == <<"aud", "iss", "cid", "exp", "iat">>

\* the identity-token flow with the client id check of the other flow left in
IdTokenStepsWithCid == <<"iss", "aud", "cid", "exp", "iat", "nonce">>

\* the steps of each flow, in the order of its statements
AccessTokenSteps == <<"iss", "aud", "cid", "exp", "iat">>
IdTokenSteps     == <<"iss", "aud", "exp", "iat", "nonce">>

StepsOf(f) == IF f = "access" THEN AccessTokenSteps ELSE IdTokenSteps

\* the flow returning after its fourth check
AfterStepShort(f, i) == IF i < 4 THEN StepsOf(f)[i + 1] ELSE "done"

\* the statement after step number i of flow f: the next check, or the return
AfterStep(f, i) == IF i < Len(StepsOf(f)) THEN StepsOf(f)[i + 1] ELSE "done"

(***************************************************************************)
(* What the flows hand back.                                               *)
(***************************************************************************)
\* the *Jwt a flow returns: nil, or a Jwt holding the decoded claims
NilJwt == [isNil |-> TRUE, Claims |-> EmptyMap]
Jwt(claims) == [isNil |-> FALSE, Claims |-> claims]

NoReturn == [status |-> "none", result |-> NilJwt, err |-> NoErr]
Returned(result, err) == [status |-> "returned", result |-> result, err |-> err]
\* the call did not return: a run-time panic unwinds into the caller
Panicked == [status |-> "panic", result |-> NilJwt, err |-> Panic]

\* a negative shape check reported the same way by both flows
ShapeFailureWrapped(f, v) == Returned(NilJwt, Errorf("token is not valid", v.err.kind))

\* the return of a flow whose shape check was negative; v is isValidJwt's result
ShapeFailure(f, v) ==
    IF f = "access"
    THEN Returned(NilJwt, Errorf("token is not valid", v.err.kind))
    ELSE Returned(NilJwt, v.err)

\* a failing check answered with a nil result
CheckFailureNil(claims, step, err) ==
    Returned(NilJwt, Errorf(StepMessage(step), err.kind))

\* the return of a flow one of whose checks returned err
CheckFailure(claims, step, err) ==
    Returned(Jwt(claims), Errorf(StepMessage(step), err.kind))

\* the return of a flow all of whose checks passed
Success(claims) == Returned(Jwt(claims), NoErr)

\* decodeJwt's error for a failed Adaptor.Decode
DecodeFailure == Returned(NilJwt, Errorf("could not decode token", "adaptor"))

(***************************************************************************)
(* Inputs: the configurations a caller builds, the metadata responses, the *)
(* claim sets the adaptor decodes.                                         *)
(***************************************************************************)
DefaultLeeway == 120

CallIds == {"c1", "c2"}

Issuers == {"A", "B"}
Leeways == {0 - 2, 0, DefaultLeeway}

NilClaimsToValidate == [isNil |-> TRUE, m |-> [k \in {} |-> ""]]
ClaimsMap(m) == [isNil |-> FALSE, m |-> m]

EqualityClaims == {"iss", "aud", "cid", "nonce"}

ClaimsToValidateInputs ==
    { NilClaimsToValidate,
      ClaimsMap([k \in {} |-> ""]),
      ClaimsMap([k \in EqualityClaims |-> ""]),
      ClaimsMap([k \in EqualityClaims |-> "A"]) }
    \cup { ClaimsMap([k \in {only} |-> "A"]) : only \in EqualityClaims }

VerifierInputs ==
    [Issuer : Issuers, Leeway : Leeways, ClaimsToValidate : ClaimsToValidateInputs,
     Discovery : {"nil", "custom"}, Adaptor : {"nil", "custom"}]

\* the metadata map after json Decode of the response body: with a string
\* jwks_uri, with none (also a body that is not JSON), with one of another type
MetaDataInputs ==
    { [k \in {"jwks_uri"} |-> Str("keys")],
      EmptyMap,
      [k \in {"jwks_uri"} |-> Num(1)] }

\* a claim set: the keys with a value
Claims(iss, aud, cid, nonce, exp, iat) ==
    LET all == [k \in {"iss", "aud", "cid", "nonce", "exp", "iat"} |->
                   CASE k = "iss" -> iss [] k = "aud" -> aud [] k = "cid" -> cid
                     [] k = "nonce" -> nonce [] k = "exp" -> exp [] k = "iat" -> iat]
    IN [k \in {x \in DOMAIN all : all[x] # Absent} |-> all[k]]

Fresh == Num(Epoch + 3600)
Stale == Num(Epoch - 1000)

\* expiry values on both sides of the boundary now - leeway of every leeway
ExpInputs ==
    {Absent, Str("soon"), Fresh, Stale}
    \cup {Num(Epoch - l + d) : l \in Leeways, d \in (0 - Spread)..(MaxTicks + Spread)}

IatInputs ==
    { Absent, Str("soon"), Fresh, Stale,
      Num(Epoch - 10),
      Num(Epoch - DefaultLeeway - 1),
      Num(Epoch + DefaultLeeway + MaxTicks + 1) }

ClaimSetInputs ==
    \* every combination of matching and other strings, few timestamps
    { Claims(Str(i), Str(a), Str(c), Str(n), ts[1], ts[2]) :
        i \in {"A", "B"}, a \in {"A", "B"}, c \in {"A", "B"}, n \in {"A", "B"},
        ts \in {<<Fresh, Fresh>>, <<Stale, Fresh>>, <<Fresh, Stale>>} }
    \* one equality claim missing or not a string
    \cup { Claims(v[1], v[2], v[3], v[4], Fresh, Fresh) :
             v \in { w \in [1..4 -> {Str("A"), Absent, Other}] :
                       Cardinality({x \in 1..4 : w[x] # Str("A")}) = 1 } }
    \* matching strings, every pair of timestamps
    \cup { Claims(Str("A"), Str("A"), Str("A"), Str("A"), e, i) :
             e \in ExpInputs, i \in IatInputs }

\* the claim sets of the scenarios that are about something else
FewClaimSets ==
    { Claims(Str("A"), Str("A"), Str("A"), Str("A"), Fresh, Fresh),
      Claims(Str("B"), Str("A"), Str("A"), Str("A"), Fresh, Fresh),
      Claims(Str("A"), Str("A"), Str("A"), Str("A"), Num(Epoch + 1), Fresh),
      Claims(Str("A"), Str("A"), Str("A"), Str("B"), Fresh, Absent) }

\* the verifiers of those scenarios
FewVerifiers ==
    [Issuer : {"A"}, Leeway : {0}, Discovery : {"custom"}, Adaptor : {"custom"},
     ClaimsToValidate : {NilClaimsToValidate, ClaimsMap([k \in EqualityClaims |-> "A"])}]

(***************************************************************************)
(* State.                                                                  *)
(*   verifier   the JwtVerifier struct                                     *)
(*   now        time.Now().Unix()                                          *)
(*   process    "running", or "exited" once log.Fatal has ended it         *)
(*   callers    the goroutines that call the verifier                      *)
(*   scenario   which tokens and which decoded claims the callers meet     *)
(*   pc         where each caller stands in the flow it called             *)
(*   flow, jwt  the method each caller called and its argument             *)
(*   metaData   getMetaData's result in decodeJwt                          *)
(*   token      the claims map Adaptor.Decode returned                     *)
(*   evaluated  the claim checks the call has run, in order                *)
(*   log        the calls a flow has made out of the package, in order:    *)
(*              http.Get, Adaptor.Decode, time.Now, each with its answer   *)
(*   ret        what the call returned                                     *)
(***************************************************************************)
Idle(c) == pc[c] = "idle"

\* one entry of log: the function called, "ok" or "error", and for time.Now
\* the second it gave
Called(fn, answer, at) == [fn |-> fn, answer |-> answer, at |-> at]

\* validateExp reads the clock; the flows run it for exp and for iat
ReadsClock(step) == step \in {"exp", "iat"}

\* the tokens callers pass and the claim sets the adaptor decodes, by scenario
TokensOf(s) ==
    CASE s = "shapes" -> ShapeTokens
      [] s = "two callers" -> {GoodToken, EmptyToken}
      [] OTHER -> Tokens

ClaimSetsOf(s) == IF s = "one caller" THEN ClaimSetInputs ELSE FewClaimSets

InitCalls ==
    /\ now = Epoch
    /\ process = "running"
    /\ pc = [c \in CallIds |-> "idle"]
    /\ flow = [c \in CallIds |-> "none"]
    /\ jwt = [c \in CallIds |-> EmptyToken]
    /\ metaData = [c \in CallIds |-> EmptyMap]
    /\ token = [c \in CallIds |-> EmptyMap]
    /\ evaluated = [c \in CallIds |-> <<>>]
    /\ log = [c \in CallIds |-> <<>>]
    /\ ret = [c \in CallIds |-> NoReturn]

\* a verifier as its caller wrote the struct, used by one goroutine
Init ==
    /\ verifier \in VerifierInputs
    /\ callers = {"c1"}
    /\ scenario = "one caller"
    /\ InitCalls

\* one goroutine and the tokens of the shape scenario
InitShapes ==
    /\ verifier \in FewVerifiers
    /\ callers = {"c1"}
    /\ scenario = "shapes"
    /\ InitCalls

\* two goroutines calling one verifier
InitTwoCallers ==
    /\ verifier \in FewVerifiers
    /\ callers = CallIds
    /\ scenario = "two callers"
    /\ InitCalls

\* New(): the defaults, called while no verification is running
New ==
    /\ process = "running"
    /\ \A c \in CallIds : Idle(c)
    /\ verifier' = [verifier EXCEPT
                      !.Discovery = IF @ = "nil" THEN "oidc" ELSE @,
                      !.Adaptor = IF @ = "nil" THEN "lestrratGoJwx" ELSE @,
                      !.Leeway = DefaultLeeway]
    /\ UNCHANGED <<now, process, callers, scenario, pc, flow, jwt, metaData, token,
                   evaluated, log, ret>>

\* the clock advances
Tick ==
    /\ process = "running"
    /\ now < Epoch + MaxTicks
    /\ now' = now + 1
    /\ UNCHANGED <<verifier, process, callers, scenario, pc, flow, jwt, metaData, token,
                   evaluated, log, ret>>

Enter(c, f, t) ==
    /\ process = "running"
    /\ c \in callers
    /\ Idle(c)
    /\ pc' = [pc EXCEPT ![c] = "shape"]
    /\ flow' = [flow EXCEPT ![c] = f]
    /\ jwt' = [jwt EXCEPT ![c] = t]
    /\ UNCHANGED <<verifier, now, process, callers, scenario, metaData, token, evaluated,
                   log, ret>>

\* a caller calls VerifyAccessToken(jwt)
VerifyAccessToken(c) == \E t \in TokensOf(scenario) : Enter(c, "access", t)

\* a caller calls VerifyIdToken(jwt)
VerifyIdToken(c) == \E t \in TokensOf(scenario) : Enter(c, "id", t)

\* a shape step that goes on to the metadata whatever isValidJwt says
ShapeCheckLate(c) ==
    /\ process = "running"
    /\ pc[c] = "shape"
    /\ pc' = [pc EXCEPT ![c] = "metadata"]
    /\ UNCHANGED <<verifier, now, process, callers, scenario, flow, jwt, metaData, token,
                   evaluated, log, ret>>

\* isValidJwt and the return on a negative result
ShapeCheck(c) ==
    /\ process = "running"
    /\ pc[c] = "shape"
    /\ LET v == isValidJwt(jwt[c])
       IN IF v.ok = FALSE
          THEN /\ ret' = [ret EXCEPT ![c] = ShapeFailure(flow[c], v)]
               /\ pc' = [pc EXCEPT ![c] = "done"]
          ELSE /\ pc' = [pc EXCEPT ![c] = "metadata"]
               /\ UNCHANGED ret
    /\ UNCHANGED <<verifier, now, process, callers, scenario, flow, jwt, metaData, token,
                   evaluated, log>>

\* getMetaData: the GET of the issuer's metadata document.  A nil Discovery
\* panics at GetWellKnownUrl; a transport error reaches log.Fatal, which ends
\* the process; any response body gives a map and a nil error.
GetMetaData(c) ==
    /\ process = "running"
    /\ pc[c] = "metadata"
    /\ \/ /\ verifier.Discovery = "nil"
          /\ ret' = [ret EXCEPT ![c] = Panicked]
          /\ pc' = [pc EXCEPT ![c] = "done"]
          /\ UNCHANGED <<process, metaData, log>>
       \/ /\ verifier.Discovery # "nil"
          /\ log' = [log EXCEPT ![c] = Append(@, Called("http.Get", "error", 0))]
          /\ process' = "exited"
          /\ UNCHANGED <<pc, ret, metaData>>
       \/ /\ verifier.Discovery # "nil"
          /\ \E md \in MetaDataInputs :
                metaData' = [metaData EXCEPT ![c] = md]
          /\ log' = [log EXCEPT ![c] = Append(@, Called("http.Get", "ok", 0))]
          /\ pc' = [pc EXCEPT ![c] = "decode"]
          /\ UNCHANGED <<process, ret>>
    /\ UNCHANGED <<verifier, now, callers, scenario, flow, jwt, token, evaluated>>

\* decodeJwt after getMetaData, and the flow's return on its error: the
\* assertion metaData["jwks_uri"].(string) and the call through a nil Adaptor
\* panic; Adaptor.Decode keeps to its contract and returns the claims map
\* with a nil error, or an error.
Decode(c) ==
    /\ process = "running"
    /\ pc[c] = "decode"
    /\ \/ /\ \/ Lookup(metaData[c], "jwks_uri").t # "string"
             \/ verifier.Adaptor = "nil"
          /\ ret' = [ret EXCEPT ![c] = Panicked]
          /\ pc' = [pc EXCEPT ![c] = "done"]
          /\ UNCHANGED <<token, log>>
       \/ /\ Lookup(metaData[c], "jwks_uri").t = "string"
          /\ verifier.Adaptor # "nil"
          /\ ret' = [ret EXCEPT ![c] = DecodeFailure]
          /\ pc' = [pc EXCEPT ![c] = "done"]
          /\ log' = [log EXCEPT ![c] = Append(@, Called("Adaptor.Decode", "error", 0))]
          /\ UNCHANGED token
       \/ /\ Lookup(metaData[c], "jwks_uri").t = "string"
          /\ verifier.Adaptor # "nil"
          /\ \E claims \in ClaimSetsOf(scenario) :
                token' = [token EXCEPT ![c] = claims]
          /\ log' = [log EXCEPT ![c] = Append(@, Called("Adaptor.Decode", "ok", 0))]
          /\ pc' = [pc EXCEPT ![c] = StepsOf(flow[c])[1]]
          /\ UNCHANGED ret
    /\ UNCHANGED <<verifier, now, process, callers, scenario, flow, jwt, metaData, evaluated>>

\* the number of step in the sequence of flow f
StepIndex(f, step) == CHOOSE i \in 1..Len(StepsOf(f)) : StepsOf(f)[i] = step

\* one claim check of a flow and the statement after it: the wrapped error
\* with &myJwt, the next check, or the final return
RunStep(c, step) ==
    /\ process = "running"
    /\ pc[c] = step
    /\ evaluated' = [evaluated EXCEPT ![c] = Append(@, step)]
    /\ log' = [log EXCEPT ![c] = IF ReadsClock(step)
                                 THEN Append(@, Called("time.Now", "ok", now))
                                 ELSE @]
    /\ LET err == StepCheck(verifier, step, token[c], now)
           next == AfterStep(flow[c], StepIndex(flow[c], step))
       IN IF err = Panic
          THEN /\ ret' = [ret EXCEPT ![c] = Panicked]
               /\ pc' = [pc EXCEPT ![c] = "done"]
          ELSE IF err # NoErr
          THEN /\ ret' = [ret EXCEPT ![c] = CheckFailure(token[c], step, err)]
               /\ pc' = [pc EXCEPT ![c] = "done"]
          ELSE IF next = "done"
          THEN /\ ret' = [ret EXCEPT ![c] = Success(token[c])]
               /\ pc' = [pc EXCEPT ![c] = "done"]
          ELSE /\ pc' = [pc EXCEPT ![c] = next]
               /\ UNCHANGED ret
    /\ UNCHANGED <<verifier, now, process, callers, scenario, flow, jwt, metaData, token>>

CheckIss(c)   == RunStep(c, "iss")
CheckAud(c)   == RunStep(c, "aud")
CheckCid(c)   == RunStep(c, "cid")
CheckExp(c)   == RunStep(c, "exp")
CheckIat(c)   == RunStep(c, "iat")
CheckNonce(c) == RunStep(c, "nonce")

\* the caller has its answer and is free to call again
Finish(c) ==
    /\ process = "running"
    /\ pc[c] = "done"
    /\ pc' = [pc EXCEPT ![c] = "idle"]
    /\ flow' = [flow EXCEPT ![c] = "none"]
    /\ jwt' = [jwt EXCEPT ![c] = EmptyToken]
    /\ metaData' = [metaData EXCEPT ![c] = EmptyMap]
    /\ token' = [token EXCEPT ![c] = EmptyMap]
    /\ evaluated' = [evaluated EXCEPT ![c] = <<>>]
    /\ log' = [log EXCEPT ![c] = <<>>]
    /\ ret' = [ret EXCEPT ![c] = NoReturn]
    /\ UNCHANGED <<verifier, now, process, callers, scenario>>

Next ==
    \/ New
    \/ Tick
    \/ \E c \in CallIds : VerifyAccessToken(c)
    \/ \E c \in CallIds : VerifyIdToken(c)
    \/ \E c \in CallIds : ShapeCheck(c)
    \/ \E c \in CallIds : GetMetaData(c)
    \/ \E c \in CallIds : Decode(c)
    \/ \E c \in CallIds : CheckIss(c)
    \/ \E c \in CallIds : CheckAud(c)
    \/ \E c \in CallIds : CheckCid(c)
    \/ \E c \in CallIds : CheckExp(c)
    \/ \E c \in CallIds : CheckIat(c)
    \/ \E c \in CallIds : CheckNonce(c)
    \/ \E c \in CallIds : Finish(c)

Spec == Init /\ [][Next]_vars

SpecShapes == InitShapes /\ [][Next]_vars

SpecTwoCallers == InitTwoCallers /\ [][Next]_vars

(***************************************************************************)
(* Properties.                                                             *)
(***************************************************************************)
\* the call of c has returned to its caller
HasReturned(c) == pc[c] = "done" /\ ret[c].status = "returned"

\* the expectation for claim k is unset: a nil map, no entry, or the empty string
Unset(k) ==
    \/ verifier.ClaimsToValidate.isNil
    \/ k \notin DOMAIN verifier.ClaimsToValidate.m
    \/ verifier.ClaimsToValidate.m[k] = ""

\* the decoded claim k is a string equal to the expectation
Matches(k, claims) ==
    /\ k \in DOMAIN verifier.ClaimsToValidate.m
    /\ k \in DOMAIN claims
    /\ claims[k].t = "string"
    /\ claims[k].s = verifier.ClaimsToValidate.m[k]

EqualityPasses(k, claims) == Unset(k) \/ Matches(k, claims)

\* the error message that names each check
NameOf(step) ==
    CASE step = "iss"   -> "the Issuer was not able to be validated"
      [] step = "aud"   -> "the Audience was not able to be validated"
      [] step = "cid"   -> "the Client Id was not able to be validated"
      [] step = "exp"   -> "the Expiration was not able to be validated"
      [] step = "iat"   -> "the Issued At was not able to be validated"
      [] step = "nonce" -> "the Nonce was not able to be validated"

\* the call of c returned the error of check k
FailedAt(c, k) == HasReturned(c) /\ ret[c].err.kind = NameOf(k)

\* the checks of a call, run in the given order, stopping at the first failure
RunsInOrder(c, order) ==
    LET ev == evaluated[c]
    IN /\ Len(ev) <= Len(order)
       /\ ev = SubSeq(order, 1, Len(ev))
       \* every check before the last one evaluated passed
       /\ \A i \in 1..Len(ev) :
             (order[i] \in EqualityClaims /\ (i < Len(ev) \/ ~FailedAt(c, order[i])))
                => EqualityPasses(order[i], token[c])
       \* a returned error names the last check evaluated, and none follows it
       /\ (HasReturned(c) /\ ev # <<>> /\ ret[c].err # NoErr)
             => /\ ret[c].err.kind = NameOf(ev[Len(ev)])
                /\ ev[Len(ev)] \in EqualityClaims => ~EqualityPasses(ev[Len(ev)], token[c])
       \* a failing equality check ends the call at the earliest such check
       /\ (pc[c] = "done" /\ ev # <<>>)
             => \A i \in 1..Len(order) :
                   ( /\ order[i] \in EqualityClaims
                     /\ ~EqualityPasses(order[i], token[c])
                     /\ \A h \in 1..(i - 1) :
                           order[h] \in EqualityClaims
                             /\ EqualityPasses(order[h], token[c]) )
                   => FailedAt(c, order[i]) /\ Len(ev) = i
       /\ (HasReturned(c) /\ ev # <<>> /\ ret[c].err = NoErr) => ev = order

\* C1: VerifyAccessToken runs its checks in the order issuer, audience, client
\* id, expiry, issued-at and stops at the first that fails; the error it returns
\* names the earliest failing check whatever the later ones would give, no
\* later check is evaluated, and nonce is never checked.
C1_AccessTokenOrder ==
    \A c \in CallIds :
       flow[c] = "access" => RunsInOrder(c, <<"iss", "aud", "cid", "exp", "iat">>)

\* an access-token call stopped at the issuer although audience, client id
\* and expiry would fail too
C1_Witness ==
    \E c \in CallIds :
       /\ flow[c] = "access"
       /\ FailedAt(c, "iss")
       /\ evaluated[c] = <<"iss">>
       /\ ~EqualityPasses("aud", token[c])
       /\ ~EqualityPasses("cid", token[c])
       /\ Lookup(token[c], "exp") = Stale

\* C2: VerifyIdToken runs its checks in the order issuer, audience, expiry,
\* issued-at, nonce and stops at the first that fails; the error it returns
\* names the earliest failing check, and the client id is never checked.
C2_IdTokenOrder ==
    \A c \in CallIds :
       flow[c] = "id" => RunsInOrder(c, <<"iss", "aud", "exp", "iat", "nonce">>)

\* an identity-token call succeeded with a cid other than the configured one
C2_Witness ==
    \E c \in CallIds :
       /\ flow[c] = "id"
       /\ HasReturned(c)
       /\ ret[c].err = NoErr
       /\ ~ret[c].result.isNil
       /\ ~Unset("cid")
       /\ ~EqualityPasses("cid", token[c])

\* the call of c returned a non-nil result with a nil error
Succeeded(c) == HasReturned(c) /\ ~ret[c].result.isNil /\ ret[c].err = NoErr

\* a timestamp claim that passes the expiry comparison at some time up to now
NotExpiredBy(v) ==
    /\ v.t = "float64"
    /\ \E t \in Epoch..now : ~(t - verifier.Leeway > v.n)

\* C3: a flow returns a non-nil result with a nil error only if the token
\* passed shape validation, the metadata fetch and the decode succeeded and
\* every check of the flow passed for the decoded claims; the claim set
\* returned is the decoded one.
C3_SuccessOnlyThroughEveryStep ==
    \A c \in CallIds :
       Succeeded(c) =>
          /\ jwt[c].text # <<>>
          /\ isValidJwt(jwt[c]).ok
          /\ Lookup(metaData[c], "jwks_uri").t = "string"
          /\ verifier.Discovery # "nil" /\ verifier.Adaptor # "nil"
          /\ token[c] \in ClaimSetInputs
          /\ ret[c].result.Claims = token[c]
          /\ evaluated[c] = IF flow[c] = "access"
                            THEN <<"iss", "aud", "cid", "exp", "iat">>
                            ELSE <<"iss", "aud", "exp", "iat", "nonce">>
          /\ EqualityPasses("iss", token[c])
          /\ EqualityPasses("aud", token[c])
          /\ flow[c] = "access" => EqualityPasses("cid", token[c])
          /\ flow[c] = "id" => EqualityPasses("nonce", token[c])
          /\ NotExpiredBy(Lookup(token[c], "exp"))
          /\ NotExpiredBy(Lookup(token[c], "iat"))

\* the end-to-end scenario: iss, aud and cid configured and matching, exp an
\* hour ahead, iat ten seconds back, after New()
C3_Witness ==
    \E c \in CallIds :
       /\ flow[c] = "access"
       /\ Succeeded(c)
       /\ verifier.Leeway = DefaultLeeway
       /\ ~Unset("iss") /\ ~Unset("aud") /\ ~Unset("cid")
       /\ Lookup(token[c], "exp") = Fresh
       /\ Lookup(token[c], "iat") = Num(Epoch - 10)
       /\ ret[c].result.Claims = token[c]

\* the expiry step of the call of c is taken
ExpStep(c) == pc[c] = "exp" /\ pc'[c] # "exp"
\* the issued-at step of the call of c is taken
IatStep(c) == pc[c] = "iat" /\ pc'[c] # "iat"

\* C4: the expiry check fails exactly when now - leeway > exp, for every
\* current time, leeway and numeric exp: exp = now - leeway still passes,
\* exp = now - leeway - 1 fails.
C4_ExpiryBoundary ==
    [][\A c \in CallIds :
          (ExpStep(c) /\ Lookup(token[c], "exp").t = "float64") =>
             /\ FailedAt(c, "exp")' <=> (now - verifier.Leeway > token[c]["exp"].n)
             /\ FailedAt(c, "exp")' \/ pc'[c] = "iat"
             /\ token[c]["exp"].n = now - verifier.Leeway => ~FailedAt(c, "exp")'
             /\ token[c]["exp"].n = now - verifier.Leeway - 1 => FailedAt(c, "exp")']_vars

\* with leeway 120 a token 121 seconds past its expiry is rejected
C4_Witness ==
    \E c \in CallIds :
       /\ FailedAt(c, "exp")
       /\ verifier.Leeway = 120
       /\ Lookup(token[c], "exp") = Num(now - 121)

\* C5: the issued-at step fails exactly when now + leeway < iat: a token
\* issued in the past is never rejected by it, one issued more than leeway
\* seconds in the future always is.
C5_IssuedAtNotInFuture ==
    [][\A c \in CallIds :
          (IatStep(c) /\ Lookup(token[c], "iat").t = "float64") =>
             (FailedAt(c, "iat")' <=>
                validateIat(verifier, token[c]["iat"], now) # NoErr)]_vars

\* C6: a negative shape check ends either flow with a nil result and a
\* non-nil error; no flow returns a nil result with a nil error.
C6_NegativeShapeIsFailure ==
    \A c \in CallIds :
       HasReturned(c) =>
          /\ ~(ret[c].result.isNil /\ ret[c].err = NoErr)
          /\ ~isValidJwt(jwt[c]).ok => (ret[c].result.isNil /\ ret[c].err # NoErr)

\* C7: when a claim check fails, the flow returns a non-nil result with a
\* non-nil error and the result holds the decoded claim set as it was decoded;
\* a nil result is returned only for a failure of the shape check or the decode.
C7_CheckFailureKeepsClaims ==
    \A c \in CallIds :
       HasReturned(c) =>
          /\ (evaluated[c] # <<>> /\ (\E k \in {"iss", "aud", "cid", "exp", "iat", "nonce"} : FailedAt(c, k)))
                => /\ ~ret[c].result.isNil
                   /\ ret[c].err # NoErr
                   /\ ret[c].result.Claims = token[c]
                   /\ token[c] \in ClaimSetInputs
          /\ evaluated[c] # <<>> => ~ret[c].result.isNil
          /\ ret[c].result.isNil => (evaluated[c] = <<>> /\ token[c] = EmptyMap)

\* exp a thousand seconds back with leeway 120: an expiry error and the full
\* claim set
C7_Witness ==
    \E c \in CallIds :
       /\ FailedAt(c, "exp")
       /\ verifier.Leeway = DefaultLeeway
       /\ Lookup(token[c], "exp") = Stale
       /\ ~ret[c].result.isNil
       /\ DOMAIN ret[c].result.Claims = {"iss", "aud", "cid", "nonce", "exp", "iat"}

\* C8: with exp or iat missing or not a number both flows return a
\* validation error for that step; none fails to return.
C8_NonNumericTimestampIsError ==
    \A c \in CallIds :
       \A k \in {"exp", "iat"} :
          ( /\ pc[c] = "done"
            /\ evaluated[c] # <<>>
            /\ evaluated[c][Len(evaluated[c])] = k
            /\ Lookup(token[c], k).t # "float64" )
          => FailedAt(c, k)

\* C9: every failure of the decode stage comes back as an error with a nil
\* result: a transport failure of the metadata request, a response without a
\* string jwks_uri, an error of the signature decoder.  With both
\* collaborators set, the process keeps running and a call that ends before
\* its first claim check, after a positive shape check, has returned an error.
C9_DecodeFailureIsReturned ==
    (verifier.Discovery # "nil" /\ verifier.Adaptor # "nil") =>
       /\ process = "running"
       /\ \A c \in CallIds :
             (pc[c] = "done" /\ isValidJwt(jwt[c]).ok /\ evaluated[c] = <<>>)
                => /\ ret[c].status = "returned"
                   /\ ret[c].result.isNil
                   /\ ret[c].err # NoErr

\* C10: each equality check (iss, aud, cid, nonce) passes if and only if its
\* expectation is unset or the decoded claim is a string equal to it; the
\* Issuer field takes no part.
C10_EqualityChecks ==
    \A c \in CallIds :
       \A i \in 1..Len(evaluated[c]) :
          evaluated[c][i] \in EqualityClaims =>
             (FailedAt(c, evaluated[c][i]) <=> ~EqualityPasses(evaluated[c][i], token[c]))

\* a call succeeded whose iss claim is not the Issuer of the verifier, with
\* the iss expectation unset and the audience expected
C10_Witness ==
    \E c \in CallIds :
       /\ Succeeded(c)
       /\ Unset("iss")
       /\ ~Unset("aud")
       /\ Lookup(token[c], "iss") # Str(verifier.Issuer)
       /\ Lookup(token[c], "iss").t # "string"

(***************************************************************************)
(* The collaborators of a call.                                            *)
(***************************************************************************)
\* the calls of c to its two collaborators, in the order made
CollaboratorCalls(c) ==
    SelectSeq(log[c], LAMBDA e : e.fn \in {"http.Get", "Adaptor.Decode"})

\* C11: within one call the collaborators are called in pipeline order and
\* at most once each: the metadata fetch only for a token of valid shape, the
\* decoder only after the fetch has returned, no claim check before the
\* decoder has succeeded; a token of negative shape causes no fetch and no
\* decode.
C11_PipelineOrder ==
    \A c \in callers :
       LET K == CollaboratorCalls(c)
       IN /\ Len(K) <= 2
          /\ Len(K) >= 1 => K[1].fn = "http.Get"
          /\ Len(K) = 2 => K[1].answer = "ok" /\ K[2].fn = "Adaptor.Decode"
          /\ evaluated[c] # <<>> => Len(K) = 2 /\ K[2].answer = "ok"
          /\ \A i \in 1..Len(log[c]) :
                log[c][i].fn = "time.Now" =>
                   \E k \in 1..(i - 1) :
                      log[c][k].fn = "Adaptor.Decode" /\ log[c][k].answer = "ok"
          /\ log[c] # <<>> => isValidJwt(jwt[c]).ok

\* a call that fetched once, decoded once and went on to its checks
C11_Witness ==
    \E c \in callers :
       /\ HasReturned(c)
       /\ evaluated[c] # <<>>
       /\ Len(CollaboratorCalls(c)) = 2
       /\ CollaboratorCalls(c)[1].fn = "http.Get"
       /\ CollaboratorCalls(c)[2].fn = "Adaptor.Decode"

(***************************************************************************)
(* Shape validation.                                                       *)
(***************************************************************************)
\* the call of c returned at its shape check
ShapeRejected(c) == HasReturned(c) /\ log[c] = <<>> /\ evaluated[c] = <<>>

\* the call of c went on after its shape check: shape validation returned true
PastShape(c) == pc[c] \notin {"idle", "shape"} /\ ~ShapeRejected(c)

\* C12: shape validation returns a non-nil error if and only if the token is
\* the empty string, and then (false, JwtEmptyStringError); for every
\* non-empty token the error is nil, so a rejected one gives (false, nil),
\* which is what the identity flow hands back.
C12_ErrorOnlyForEmptyToken ==
    \A c \in callers :
       pc[c] # "idle" =>
          LET v == isValidJwt(jwt[c])
              nilError == [kind |-> "nil", about |-> "nil"]
          IN /\ (v.err # nilError) <=> (jwt[c].text = <<>>)
             /\ jwt[c].text = <<>> =>
                   v = [ok |-> FALSE,
                        err |-> [kind |-> "JwtEmptyStringError", about |-> "nil"]]
             /\ (jwt[c].text # <<>> /\ ~PastShape(c)) =>
                   v \in {[ok |-> FALSE, err |-> nilError], [ok |-> TRUE, err |-> nilError]}
             /\ (jwt[c].text # <<>> /\ ShapeRejected(c)) =>
                   v = [ok |-> FALSE, err |-> nilError]
             /\ (ShapeRejected(c) /\ flow[c] = "id") =>
                   ((ret[c].err # nilError) <=> (jwt[c].text = <<>>))

\* a non-empty token whose header has a key too many is rejected without an error
C12_Witness ==
    \E c \in callers :
       /\ ShapeRejected(c)
       /\ flow[c] = "id"
       /\ jwt[c].text # <<>>
       /\ jwt[c].bytes.isJson
       /\ DOMAIN jwt[c].bytes.obj = {"alg", "kid", "typ"}
       /\ ret[c].err = [kind |-> "nil", about |-> "nil"]

\* exactly three non-empty segments of letters, digits, '-' and '_'
ThreeUrlSafeSegments(text) ==
    LET P == {i \in 1..Len(text) : text[i] = "."}
    IN /\ Cardinality(P) = 2
       /\ \A i \in 1..Len(text) : text[i] \in {"w", "-", "."}
       /\ 1 \notin P
       /\ Len(text) \notin P
       /\ \A i \in P : i + 1 \notin P

\* C13: shape validation returns true only for a token of exactly three
\* period-delimited segments over the URL-safe base64 alphabet: a token of
\* two segments, of four, or with other text in it is rejected also when
\* its first segment is a valid header.
C13_OnlyThreeSegmentsPass ==
    \A c \in callers : PastShape(c) => ThreeUrlSafeSegments(jwt[c].text)

\* the decoded header is an object of exactly the keys alg and kid, alg "RS256"
TwoKeyRs256Header(j) ==
    /\ j.bytes.isJson
    /\ DOMAIN j.bytes.obj = {"alg", "kid"}
    /\ j.bytes.obj["alg"] = [t |-> "string", s |-> "RS256", n |-> 0]

\* C14: shape validation returns true only if the decoded header is a JSON
\* object with exactly the two keys alg and kid and alg the string RS256;
\* every other header of a non-empty token gives (false, nil) and ends the
\* call at the shape check.
C14_HeaderKeys ==
    \A c \in callers :
       /\ PastShape(c) => TwoKeyRs256Header(jwt[c])
       /\ (pc[c] # "idle" /\ jwt[c].text # <<>> /\ ~TwoKeyRs256Header(jwt[c])) =>
             /\ isValidJwt(jwt[c]) = [ok |-> FALSE, err |-> [kind |-> "nil", about |-> "nil"]]
             /\ pc[c] # "shape" => ShapeRejected(c)

\* a token with the two-key RS256 header went on to the metadata fetch
C14_Witness ==
    \E c \in callers :
       /\ pc[c] = "metadata"
       /\ TwoKeyRs256Header(jwt[c])
       /\ Len(jwt[c].text) > 0

\* C17: a negative shape check ends the access flow with a new error
\* "token is not valid" made around the validator's error, nil or not, and
\* the identity flow with the validator's own error: JwtEmptyStringError
\* for the empty string, nil for any other token.
C17_ShapeErrorPerFlow ==
    \A c \in callers :
       ShapeRejected(c) =>
          /\ ret[c].result.isNil
          /\ flow[c] = "access" =>
                /\ ret[c].err.kind = "token is not valid"
                /\ ret[c].err.about =
                      (IF jwt[c].text = <<>> THEN "JwtEmptyStringError" ELSE "nil")
          /\ flow[c] = "id" =>
                ret[c].err =
                   (IF jwt[c].text = <<>>
                    THEN [kind |-> "JwtEmptyStringError", about |-> "nil"]
                    ELSE [kind |-> "nil", about |-> "nil"])

\* the identity flow returned JwtEmptyStringError itself for the empty string
C17_Witness ==
    \E c \in callers :
       /\ ShapeRejected(c)
       /\ flow[c] = "id"
       /\ jwt[c].text = <<>>
       /\ ret[c].err.kind = "JwtEmptyStringError"

(***************************************************************************)
(* Construction.                                                           *)
(***************************************************************************)
\* C15: New() fills in defaults only for what the caller left unset: the
\* leeway stays the caller's when one was given and becomes 120 otherwise, a
\* Discovery or Adaptor that was given is kept and an unset one replaced by
\* the default implementation; Issuer and ClaimsToValidate stay as they were.
C15_NewFillsOnlyUnset ==
    [][verifier' # verifier =>
          /\ verifier'.Leeway = (IF verifier.Leeway # 0 THEN verifier.Leeway ELSE 120)
          /\ verifier'.Discovery =
                (IF verifier.Discovery # "nil" THEN verifier.Discovery ELSE "oidc")
          /\ verifier'.Adaptor =
                (IF verifier.Adaptor # "nil" THEN verifier.Adaptor ELSE "lestrratGoJwx")
          /\ verifier'.Issuer = verifier.Issuer
          /\ verifier'.ClaimsToValidate = verifier.ClaimsToValidate]_vars

(***************************************************************************)
(* Leeway.                                                                 *)
(***************************************************************************)
\* the seconds time.Now gave the call of c, in the order read
ClockReads(c) == SelectSeq(log[c], LAMBDA e : e.fn = "time.Now")

\* the second the given step of the call of c read, for a step that reads one
ClockAt(c, step) ==
    IF step = "exp" /\ Len(ClockReads(c)) >= 1 THEN ClockReads(c)[1].at
    ELSE IF step = "iat" /\ Len(ClockReads(c)) >= 2 THEN ClockReads(c)[2].at
    ELSE now

\* the verifier with another leeway
WithLeeway(l) == [verifier EXCEPT !.Leeway = l]

\* C18: lowering the leeway only tightens.  A call accepted under the
\* leeway L1 of the verifier is accepted under every leeway L2 >= L1: each
\* check of its flow passes for the same claims at the same seconds.  With a
\* negative leeway the expiry step rejects a numeric exp from |leeway|
\* seconds before the moment it rejects it with leeway zero: it fails exactly
\* when the second it reads is over exp - |leeway|.
C18_LeewayOnlyTightens ==
    \A c \in callers :
       /\ Succeeded(c) =>
             \A l2 \in {0 - 2, 0 - 1, 0, 1, 120, 121} :
                l2 >= verifier.Leeway =>
                   \A i \in 1..Len(evaluated[c]) :
                      StepCheck(WithLeeway(l2), evaluated[c][i], token[c],
                                ClockAt(c, evaluated[c][i]))
                         = [kind |-> "nil", about |-> "nil"]
       /\ (/\ verifier.Leeway < 0
           /\ Len(ClockReads(c)) >= 1
           /\ "exp" \in DOMAIN token[c]
           /\ token[c]["exp"].t = "float64") =>
             LET early == 0 - verifier.Leeway
                 failed == pc[c] = "done" /\ evaluated[c][Len(evaluated[c])] = "exp"
             IN failed <=> (ClockAt(c, "exp") > token[c]["exp"].n - early)

\* with leeway -2 a call is rejected at the expiry step one second before
\* the exp of its token
C18_Witness ==
    \E c \in callers :
       /\ verifier.Leeway = 0 - 2
       /\ FailedAt(c, "exp")
       /\ token[c]["exp"].t = "float64"
       /\ ClockAt(c, "exp") = token[c]["exp"].n - 1

(***************************************************************************)
(* Concurrent calls on one verifier.                                       *)
(***************************************************************************)
\* what the call of c returns when it runs alone: the flow applied to its
\* token, the verifier, the responses its collaborators gave it and the
\* seconds it read
Alone(c) ==
    LET v == isValidJwt(jwt[c])
        K == CollaboratorCalls(c)
        steps == StepsOf(flow[c])
        errAt(i) == StepCheck(verifier, steps[i], token[c], ClockAt(c, steps[i]))
        bad == {i \in 1..Len(steps) : errAt(i) # NoErr}
        first == CHOOSE i \in bad : \A k \in bad : i <= k
    IN IF ~v.ok THEN ShapeFailure(flow[c], v)
       ELSE IF verifier.Discovery = "nil" THEN Panicked
       ELSE IF Lookup(metaData[c], "jwks_uri").t # "string" \/ verifier.Adaptor = "nil"
            THEN Panicked
       ELSE IF Len(K) = 2 /\ K[2].answer = "error" THEN DecodeFailure
       ELSE IF bad = {} THEN Success(token[c])
       ELSE IF errAt(first) = Panic THEN Panicked
       ELSE CheckFailure(token[c], steps[first], errAt(first))

\* the metadata fetch of the call of c itself failed
OwnFetchFailed(c) ==
    \E i \in 1..Len(log[c]) : log[c][i].fn = "http.Get" /\ log[c][i].answer = "error"

\* the steps of the flows leave every field of the verifier as it is: only
\* New, outside any call, assigns one
FlowsLeaveVerifier ==
    [][verifier' # verifier => \A c \in CallIds : pc[c] = "idle" /\ pc'[c] = "idle"]_vars

\* a call that has ended has ended as it does alone
EndedAsAlone == \A c \in callers : pc[c] = "done" => ret[c] = Alone(c)

\* two calls in flight at once, one of them ended
TwoInFlight ==
    /\ \A c \in CallIds : pc[c] \notin {"idle", "shape"}
    /\ \E c \in CallIds : HasReturned(c) /\ evaluated[c] # <<>>

\* C16: for any interleaving of concurrent calls on one verifier each call
\* returns what it returns when run alone with the same current time and
\* the same collaborator responses: a call that has ended has the outcome of
\* its run alone, and a call is stopped short of its return only by a
\* response of its own.
C16_EachCallAsWhenAlone ==
    \A c \in callers :
       /\ pc[c] = "done" => ret[c] = Alone(c)
       /\ (pc[c] \notin {"idle", "done"} /\ process # "running") => OwnFetchFailed(c)

====
